---------------------------- MODULE Spec2Model ----------------------------
(***************************************************************************)
(* Model of copt/randomized.py: the two solver entry points                *)
(* minimizelp_SAGA and minimize_BCD, the inner routine _saga_algorithm     *)
(* built by _factory_SAGA_epoch, and the prox selected by that factory.    *)
(*                                                                         *)
(* Arithmetic is exact (the claims about the cached prediction and the     *)
(* gradient average are stated "in exact arithmetic").  To stay inside     *)
(* the integers every step size is a multiple of n_samples, so that        *)
(* step_size * (sum / n_samples) is an integer, and the SAGA               *)
(* gradient_average is held in units of 1/n_samples.                       *)
(***************************************************************************)
EXTENDS Integers, Sequences, FiniteSets, TLC

\* ------------------------------------------------------------------ bounds
NSamples == 2
NFeatures == 2
MaxIter == 3
MaxAbs == 60
MaxV == 4
MaxGamma == 3

\* Python's None, and a present value v, for the optional arguments and results
None == <<>>

Some(v) == <<v>>

Val(o) == o[1]

NoError == "NoError"

Samples == 0 .. (NSamples - 1)
Features == 0 .. (NFeatures - 1)

\* ------------------------------------------------------- pure helpers
RECURSIVE SumFn(_, _)
SumFn(fn, S) ==
    IF S = {} THEN 0
    ELSE LET e == CHOOSE e \in S : TRUE IN fn[e] + SumFn(fn, S \ {e})

Abs(v) == IF v < 0 THEN -v ELSE v

fmax(u, v) == IF u >= v THEN u ELSE v

Zeros(S) == [e \in S |-> 0]

\* the coefficient magnitudes the model follows; runs that diverge past
\* MaxAbs are not continued
InRange(xs) == \A j \in DOMAIN xs : Abs(xs[j]) <= MaxAbs

\* the permutations np.random.shuffle can leave in an index array
Shuffles(S) ==
    {p \in [1 .. Cardinality(S) -> S] : \A a, c \in DOMAIN p : a # c => p[a] # p[c]}

\* ------------------------------------------------------- problem data
\* design matrices with entries in {-1, 0, 1}; zeros are the sparse positions
MatrixOf(k) ==
    [i \in Samples |-> [j \in Features |-> (((k + 1) * i + (k + 2) * j + k) % 3) - 1]]

LabelsOf(k) == [i \in Samples |-> ((i + k) % 2) * 2 - 1]

\* the loss objects f a caller can pass to minimize_BCD: f.A, f.b, f.alpha
Matrices == {MatrixOf(k) : k \in 0 .. 2}

\* the weights, tolerances and starting points the calls are tried with
Alphas == {0, 1}

Betas == {0, 1}

Tols == {0, 3}

Losses ==
    {[A |-> MatrixOf(k), b |-> LabelsOf(k), alpha |-> a] : k \in 0 .. 2, a \in Alphas}

\* the penalties g a caller can pass to minimize_BCD
Penalties == {None} \cup {Some([beta |-> w]) : w \in Betas \ {0}}

StepSizes == {NSamples}

X0s == {[j \in Features |-> c * (j + 1)] : c \in 0 .. 1}

\* squared loss (p - b)^2 and its derivative in p
loss(p, bi) == (p - bi) * (p - bi)

partial_gradient(p, bi) == 2 * (p - bi)

\* row i of M times xs (CSR traversal of the nonzeros of row i)
RowDot(M, i, xs) ==
    SumFn([j \in Features |-> xs[j] * M[i][j]], {j \in Features : M[i][j] # 0})

\* f.A.dot(xk)
Dot(M, xs) == [i \in Samples |-> RowDot(M, i, xs)]

\* soft threshold with weight w
SoftThreshold(w, v, gamma) == fmax(v - w * gamma, 0) - fmax(-v - w * gamma, 0)

\* g.prox_factory(): identity for the zero penalty, soft threshold for L1
BCDProx(pen, v, gamma) ==
    IF pen = None THEN v ELSE SoftThreshold(Val(pen).beta, v, gamma)

\* g(x)
Regularizer(pen, xs) ==
    IF pen = None THEN 0
    ELSE Val(pen).beta * SumFn([j \in Features |-> Abs(xs[j])], Features)

\* f(x) + g(x)
Objective(fl, pen, xs) ==
    SumFn([i \in Samples |-> loss(RowDot(fl.A, i, xs), fl.b[i])], Samples)
        + fl.alpha * SumFn([j \in Features |-> xs[j] * xs[j]], Features)
        + Regularizer(pen, xs)

\* ------------------------------------------------------------- state
VARIABLES
    engine,          \* which entry point was called
    arg,             \* the arguments of the call
    pc,              \* position of the call
    x,               \* coefficient vector (x / xk)
    Ax,              \* BCD cached prediction
    step_size,       \* step size in use (0 before it is set)
    trace_x,         \* trace buffer
    it,              \* loop variable of the epoch loop
    feature_indices, \* index array of the current epoch, as shuffled
    pos,             \* position in the index array (1-based), 0 outside an epoch
    result,          \* the returned OptimizeResult, None while there is none
    error,           \* the exception raised, None while there is none
    epochs,          \* observer: number of epochs executed so far
    xEnd,            \* observer: x at the end of each executed epoch
    recomputes,      \* observer: full recomputes of Ax in the current epoch
    recomputeAt,     \* observer: position at which the recompute fired
    memory_gradient, \* SAGA: last partial derivative stored per sample
    gradient_average,\* SAGA: running gradient average, in units of 1/n_samples
    sample_indices,  \* SAGA: index array of the current epoch, as shuffled
    trace_idx,       \* SAGA: row of trace_x compared against and written last
    lastGrad         \* observer: partial derivative last computed per sample

sagaVars == <<memory_gradient, gradient_average, sample_indices, trace_idx, lastGrad>>

bcdVars == <<Ax, feature_indices, xEnd, recomputes, recomputeAt>>

vars ==
    <<engine, arg, pc, x, Ax, step_size, trace_x, it, feature_indices, pos,
      result, error, epochs, xEnd, recomputes, recomputeAt, memory_gradient,
      gradient_average, sample_indices, trace_idx, lastGrad>>

SAGAArgs ==
    [x0 : X0s, alpha : {-1} \cup Alphas, beta : {-1} \cup Betas,
     step_size : {None} \cup {Some(s) : s \in StepSizes},
     max_iter : 0 .. MaxIter, tol : Tols]

BCDArgs ==
    [f : Losses, g : Penalties, x0 : {None} \cup {Some(v) : v \in X0s},
     step_size : {None} \cup {Some(s) : s \in StepSizes}, max_iter : 0 .. MaxIter,
     trace : BOOLEAN, tol : Tols]

\* the state before the first statement of a call
Fresh ==
    /\ pc = "call"
    /\ x = <<>>
    /\ Ax = <<>>
    /\ step_size = 0
    /\ trace_x = <<>>
    /\ it = 0
    /\ feature_indices = <<>>
    /\ pos = 0
    /\ result = None
    /\ error = NoError
    /\ epochs = 0
    /\ xEnd = <<>>
    /\ recomputes = 0
    /\ recomputeAt = 0
    /\ memory_gradient = <<>>
    /\ gradient_average = <<>>
    /\ sample_indices = <<>>
    /\ trace_idx = 0
    /\ lastGrad = <<>>

\* a call of one of the two public entry points
Init ==
    /\ engine \in {"SAGA", "BCD"}
    /\ arg \in (IF engine = "SAGA" THEN SAGAArgs ELSE BCDArgs)
    /\ Fresh

\* ------------------------------------------------- minimizelp_SAGA
\* lines 81-89: copy x0, reject an unset step size
SAGA_Entry ==
    /\ engine = "SAGA" /\ pc = "call"
    /\ x' = arg.x0
    /\ IF arg.step_size = None
       THEN /\ error' = "ValueError"
            /\ pc' = "raised"
            /\ step_size' = step_size
       ELSE /\ step_size' = Val(arg.step_size)
            /\ pc' = "factory"
            /\ error' = error
    /\ UNCHANGED <<engine, arg, Ax, trace_x, it, feature_indices, pos, result,
                   epochs, xEnd, recomputes, recomputeAt>>
    /\ UNCHANGED sagaVars

\* variant: the factory also rejects a negative L2 weight
FactoryErrorBothWeights(alpha, beta) ==
    IF beta < 0 \/ alpha < 0 THEN "ValueError" ELSE "NameError"

\* the exception _factory_SAGA_epoch(f_deriv, alpha, beta) ends with:
\* beta < 0 reaches the raise of line 127; otherwise line 129 reads the
\* name A, which neither the function nor the module binds
FactoryError(alpha, beta) == IF beta < 0 THEN "ValueError" ELSE "NameError"

\* line 91: the call of the factory, which never returns normally
SAGA_Factory ==
    /\ engine = "SAGA" /\ pc = "factory"
    /\ error' = FactoryError(arg.alpha, arg.beta)
    /\ pc' = "raised"
    /\ UNCHANGED <<engine, arg, x, Ax, step_size, trace_x, it, feature_indices, pos,
                   result, epochs, xEnd, recomputes, recomputeAt>>
    /\ UNCHANGED sagaVars


\* ---------------------------------------------------- minimize_BCD
\* lines 198-201: the starting point
BCDStart(a) == IF a.x0 = None THEN Zeros(Features) ELSE Val(a.x0)

\* variant: the default of lines 204-205 is not applied
BCDStepSizeAsGiven(a, lip) == IF a.step_size = None THEN 0 ELSE Val(a.step_size)

\* lines 204-205: an unset step size becomes 1 / f.lipschitz_constant('features'),
\* here the value lip
BCDStepSize(a, lip) == IF a.step_size = None THEN lip ELSE Val(a.step_size)

\* lines 215-218: the trace buffer, max_iter rows of zeros when tracing
TraceBuffer(a) ==
    IF a.trace THEN [k \in 1 .. a.max_iter |-> Zeros(Features)] ELSE <<>>

\* lines 198-224, 253-258: everything before the epoch loop
BCD_Entry ==
    /\ engine = "BCD" /\ pc = "call"
    /\ x' = BCDStart(arg)
    /\ \E lip \in StepSizes : step_size' = BCDStepSize(arg, lip)
    /\ Ax' = Dot(arg.f.A, x')
    /\ trace_x' = TraceBuffer(arg)
    /\ it' = 0
    /\ pc' = "loop"
    /\ UNCHANGED <<engine, arg, feature_indices, pos, result, error, epochs, xEnd,
                   recomputes, recomputeAt>>
    /\ UNCHANGED sagaVars

\* line 226: the values the epoch loop takes, range(1, max_iter)
EpochRange(max_iter) == 1 .. (max_iter - 1)

\* lines 226-227: the loop takes its next value and shuffles the index array
BCD_Shuffle ==
    /\ engine = "BCD" /\ pc = "loop"
    /\ (epochs + 1) \in EpochRange(arg.max_iter)
    /\ it' = epochs + 1
    /\ feature_indices' \in Shuffles(Features)
    /\ pos' = 1
    /\ recomputes' = 0
    /\ recomputeAt' = 0
    /\ pc' = "epoch"
    /\ UNCHANGED <<engine, arg, x, Ax, step_size, trace_x, result, error, epochs, xEnd>>
    /\ UNCHANGED sagaVars

\* lines 229-233: n_samples * grad_j, summed over the nonzeros of column j (CSC)
CoordGrad(fl, AxV, j) ==
    SumFn([i \in Samples |-> partial_gradient(AxV[i], fl.b[i]) * fl.A[i][j]],
          {i \in Samples : fl.A[i][j] # 0})

\* line 234: x_new = prox(x[j] - step_size * (grad_j + f_alpha * x[j]), step_size)
XNew(a, step, xs, AxV, j) ==
    BCDProx(a.g,
            xs[j] - (step \div NSamples) * CoordGrad(a.f, AxV, j)
                  - step * a.f.alpha * xs[j],
            step)

\* variant: the increment adds A[i,j] * x_new and forgets the old x[j]
IncrAxNoOld(fl, AxV, j, x_new, x_j) ==
    [i \in Samples |-> IF fl.A[i][j] # 0 THEN AxV[i] + fl.A[i][j] * x_new ELSE AxV[i]]

\* lines 237-239: Ax[i] += A[i,j] * (x_new - x[j]) over the nonzeros of column j
IncrAx(fl, AxV, j, x_new, x_j) ==
    [i \in Samples |->
        IF fl.A[i][j] # 0 THEN AxV[i] + fl.A[i][j] * (x_new - x_j) ELSE AxV[i]]

\* variant: the recompute fires on the first index of the shuffled order
RecomputeFiresFirst(j, p) == p = 1

\* line 241: the condition under which Ax is recomputed, for feature j met at
\* position p of the shuffled order
RecomputeFires(j, p) == j = 0

\* lines 243-249: Ax recomputed from the CSR view
Recompute(fl, xs) == Dot(fl.A, xs)

\* lines 228-249: one coordinate update, with the recompute when it fires
BCD_Coordinate ==
    /\ engine = "BCD" /\ pc = "epoch"
    /\ InRange(x)
    /\ LET j == feature_indices[pos]
           x_new == XNew(arg, step_size, x, Ax, j)
           AxInc == IncrAx(arg.f, Ax, j, x_new, x[j])
           xs == [x EXCEPT ![j] = x_new]
           last == pos = Len(feature_indices)
       IN /\ x' = xs
          /\ IF RecomputeFires(j, pos)
             THEN /\ Ax' = Recompute(arg.f, xs)
                  /\ recomputes' = recomputes + 1
                  /\ recomputeAt' = pos
             ELSE /\ Ax' = AxInc
                  /\ UNCHANGED <<recomputes, recomputeAt>>
          /\ IF last
             THEN /\ pc' = "loop"
                  /\ pos' = 0
                  /\ epochs' = epochs + 1
                  /\ xEnd' = Append(xEnd, xs)
             ELSE /\ pos' = pos + 1
                  /\ UNCHANGED <<pc, epochs, xEnd>>
    /\ UNCHANGED <<engine, arg, step_size, trace_x, it, feature_indices, result, error>>
    /\ UNCHANGED sagaVars

\* line 268: np.linspace(0, delta, n_iter); entry k stands for k * delta / (n_iter - 1)
Linspace(n) == [k \in 1 .. n |-> k - 1]

\* lines 256-258, 267-275: the two trace sequences of the result
TraceTime(a, n_iter) == IF a.trace THEN Linspace(n_iter) ELSE <<0>>

TraceFunc(a, buf, n_iter) ==
    IF a.trace THEN [i \in 1 .. n_iter |-> Objective(a.f, a.g, buf[i])] ELSE <<>>

\* lines 251, 262-278: the loop is exhausted, the result record is built
BCD_Return ==
    /\ engine = "BCD" /\ pc = "loop"
    /\ (epochs + 1) \notin EpochRange(arg.max_iter)
    /\ result' = Some([x |-> x, success |-> FALSE, nit |-> it,
                       trace_func |-> TraceFunc(arg, trace_x, it),
                       trace_time |-> TraceTime(arg, it),
                       certificate |-> None])
    /\ pc' = "done"
    /\ UNCHANGED <<engine, arg, x, Ax, step_size, trace_x, it, feature_indices, pos,
                   error, epochs, xEnd, recomputes, recomputeAt>>
    /\ UNCHANGED sagaVars

Next ==
    \/ SAGA_Entry
    \/ SAGA_Factory
    \/ BCD_Entry
    \/ BCD_Shuffle
    \/ BCD_Coordinate
    \/ BCD_Return

Spec == Init /\ [][Next]_vars


\* ------------------------------------- the prox of _factory_SAGA_epoch
\* lines 118-125: what prox(x, step_size) returns.  The beta > 0 body (line
\* 121) evaluates the soft-threshold expression without returning it, so the
\* call returns None; the beta = 0 body returns its argument.
SAGAProx(beta, v, gamma) == IF beta > 0 THEN None ELSE Some(v)

ProxInputs == [beta : Betas, v : -MaxV .. MaxV, gamma : 0 .. MaxGamma]

\* the prox applied to one coordinate value and one effective step
InitProx ==
    /\ engine = "prox"
    /\ arg \in ProxInputs
    /\ Fresh

Prox_Call ==
    /\ engine = "prox" /\ pc = "call"
    /\ result' = SAGAProx(arg.beta, arg.v, arg.gamma)
    /\ pc' = "done"
    /\ UNCHANGED <<engine, arg, x, step_size, trace_x, it, pos, error, epochs>>
    /\ UNCHANGED bcdVars
    /\ UNCHANGED sagaVars

NextProx == Prox_Call

SpecProx == InitProx /\ [][NextProx]_vars

\* --------------------------------------------------- _saga_algorithm
\* The inner routine of lines 135-177, entered directly with the names it
\* reads from its enclosing scopes (A, b, d, f_alpha, partial_gradient, beta)
\* bound; minimizelp_SAGA itself never gets this far (see SAGA_Factory).
Scales == {[j \in Features |-> 1 + c * j] : c \in 0 .. 1}

KernelArgs ==
    [A : Matrices, b : {LabelsOf(0)}, d : Scales, f_alpha : Alphas, beta : Betas,
     x : X0s, step_size : StepSizes, max_iter : 1 .. MaxIter, tol : Tols,
     trace : BOOLEAN]

InitKernel ==
    /\ engine = "kernel"
    /\ arg \in KernelArgs
    /\ Fresh

\* line 166 stores the value of prox into x: the routine compiles only when
\* that value is a number
KernelCompiles(beta) == SAGAProx(beta, 0, 0) # None

\* lines 135-143: entry with zero-initialised memory terms (lines 94-95) and a
\* zero trace buffer of max_iter rows
Kernel_Entry ==
    /\ engine = "kernel" /\ pc = "call"
    /\ IF KernelCompiles(arg.beta)
       THEN /\ x' = arg.x
            /\ step_size' = arg.step_size
            /\ memory_gradient' = Zeros(Samples)
            /\ gradient_average' = Zeros(Features)
            /\ lastGrad' = Zeros(Samples)
            /\ trace_x' = [k \in 1 .. arg.max_iter |-> Zeros(Features)]
            /\ pc' = "loop"
            /\ error' = error
       ELSE /\ error' = "TypingError"
            /\ pc' = "raised"
            /\ UNCHANGED <<x, step_size, memory_gradient, gradient_average, lastGrad,
                           trace_x>>
    /\ it' = 0
    /\ trace_idx' = 0
    /\ UNCHANGED <<engine, arg, pos, result, epochs, sample_indices>>
    /\ UNCHANGED bcdVars

\* lines 146-147: the loop takes its next value of range(max_iter) and shuffles
Kernel_Shuffle ==
    /\ engine = "kernel" /\ pc = "loop"
    /\ epochs \in 0 .. (arg.max_iter - 1)
    /\ it' = epochs
    /\ sample_indices' \in Shuffles(Samples)
    /\ pos' = 1
    /\ pc' = "epoch"
    /\ UNCHANGED <<engine, arg, x, step_size, trace_x, result, error, epochs,
                   memory_gradient, gradient_average, trace_idx, lastGrad>>
    /\ UNCHANGED bcdVars

\* lines 150-155: the partial derivative of sample i at the current x
SampleGrad(a, xs, i) == partial_gradient(RowDot(a.A, i, xs), a.b[i])

\* lines 156-157: memory_gradient[i] = grad_i
MemoryStore(mem, i, grad_i) == [mem EXCEPT ![i] = grad_i]

\* variant: delta forgets the gradient remembered for the sample
DeltaNoOld(a, i, j, grad_i, old_grad) == grad_i * a.A[i][j]

\* line 164: delta = (grad_i - old_grad) * A_data[j]
Delta(a, i, j, grad_i, old_grad) == (grad_i - old_grad) * a.A[i][j]

\* lines 165-166: the new x[j]; gavg is n_samples * gradient_average[j]
XStep(a, step, xs, gavg, i, j, delta) ==
    Val(SAGAProx(a.beta,
                 xs[j] - step * delta
                       - a.d[j] * ((step \div NSamples) * gavg + step * a.f_alpha * xs[j]),
                 step * a.d[j]))

\* lines 169-171: sqrt(sum((trace_x[trace_idx] - x)^2)) < tol, for tol >= 0
BelowTol(a, row, xs) ==
    SumFn([j \in Features |-> (row[j] - xs[j]) * (row[j] - xs[j])], Features)
        < a.tol * a.tol

\* lines 149-174: one sample of the epoch; after the last one, the end-of-epoch
\* test and the trace index
Kernel_Sample ==
    /\ engine = "kernel" /\ pc = "epoch"
    /\ InRange(x)
    /\ LET i == sample_indices[pos]
           grad_i == SampleGrad(arg, x, i)
           old_grad == memory_gradient[i]
           nz == {j \in Features : arg.A[i][j] # 0}
           xs == [j \in Features |->
                    IF j \in nz
                    THEN XStep(arg, step_size, x, gradient_average[j], i, j,
                               Delta(arg, i, j, grad_i, old_grad))
                    ELSE x[j]]
           last == pos = Len(sample_indices)
       IN /\ memory_gradient' = MemoryStore(memory_gradient, i, grad_i)
          /\ lastGrad' = [lastGrad EXCEPT ![i] = grad_i]
          /\ x' = xs
          /\ gradient_average' =
                [j \in Features |->
                    IF j \in nz
                    THEN gradient_average[j] + Delta(arg, i, j, grad_i, old_grad)
                    ELSE gradient_average[j]]
          /\ IF last
             THEN /\ epochs' = epochs + 1
                  /\ pos' = 0
                  /\ IF BelowTol(arg, trace_x[trace_idx + 1], xs)
                     THEN /\ pc' = "exit"
                          /\ trace_idx' = trace_idx
                     ELSE /\ pc' = "loop"
                          /\ trace_idx' = (IF arg.trace THEN it ELSE trace_idx)
             ELSE /\ pos' = pos + 1
                  /\ UNCHANGED <<pc, epochs, trace_idx>>
    /\ UNCHANGED <<engine, arg, step_size, trace_x, it, result, error, sample_indices>>
    /\ UNCHANGED bcdVars

\* lines 175-177: the last snapshot and the returned pair (it, cert)
Kernel_Return ==
    /\ engine = "kernel"
    /\ \/ pc = "exit"
       \/ pc = "loop" /\ epochs \notin 0 .. (arg.max_iter - 1)
    /\ trace_x' = [trace_x EXCEPT ![trace_idx + 1] = x]
    /\ result' = Some([it |-> it, cert |-> "inf"])
    /\ pc' = "done"
    /\ UNCHANGED <<engine, arg, x, step_size, it, pos, error, epochs>>
    /\ UNCHANGED sagaVars
    /\ UNCHANGED bcdVars

NextKernel ==
    \/ Kernel_Entry
    \/ Kernel_Shuffle
    \/ Kernel_Sample
    \/ Kernel_Return

SpecKernel == InitKernel /\ [][NextKernel]_vars

\* ================================================================ claims
SAGAFinished == engine = "SAGA" /\ pc \in {"raised", "done"}

SAGAValidCall ==
    /\ engine = "SAGA"
    /\ arg.step_size # None
    /\ arg.alpha >= 0
    /\ arg.beta >= 0

BCDRunning == engine = "BCD" /\ pc \in {"loop", "epoch", "done"}

\* C1: a call of minimizelp_SAGA with a step size ends by returning a result;
\* success = TRUE only after an epoch (the one that met the criterion), and
\* success = FALSE only after exactly max_iter epochs.
C1_StopsOnToleranceOrMaxIter ==
    (SAGAFinished /\ SAGAValidCall) =>
        /\ error = NoError
        /\ result # None
        /\ (Val(result).success => epochs >= 1)
        /\ (~Val(result).success => epochs = arg.max_iter)

C3_NitIsEpochCount ==
    (SAGAFinished /\ SAGAValidCall) =>
        /\ result # None
        /\ Val(result).nit = epochs

\* C4: minimize_BCD performs exactly max_iter epochs for every max_iter > 0,
\* whatever tol is.
C4_ExactlyMaxIterEpochs ==
    (engine = "BCD" /\ pc = "done" /\ arg.max_iter > 0) => epochs = arg.max_iter

C7_CachedPrediction ==
    /\ BCDRunning => Ax = Dot(arg.f.A, x)
    /\ (engine = "BCD" /\ pc = "epoch" /\ InRange(x)) =>
          LET j == feature_indices[pos]
              x_new == XNew(arg, step_size, x, Ax, j)
          IN IncrAx(arg.f, Ax, j, x_new, x[j]) = Dot(arg.f.A, [x EXCEPT ![j] = x_new])

\* an incremental (not recomputed) update of a column with a nonzero has
\* changed x in the current epoch
C7_Witness ==
    /\ engine = "BCD" /\ pc = "epoch"
    /\ pos = 2
    /\ recomputes = 0
    /\ \E i \in Samples : arg.f.A[i][feature_indices[1]] # 0
    /\ epochs >= 1
    /\ x # xEnd[epochs]

\* C9 (as claimed): in every epoch Ax is recomputed exactly once, right after
\* the update of the first index of the shuffled order.
C9_RecomputeAtFirstProcessed ==
    (engine = "BCD" /\ pc = "loop" /\ epochs >= 1) =>
        /\ recomputes = 1
        /\ recomputeAt = 1

\* C9 (amended): in every epoch Ax is recomputed exactly once, right after the
\* update of feature index 0, at whatever position of the shuffled order
\* index 0 occurs.
C9_RecomputeAtIndexZero ==
    /\ (engine = "BCD" /\ pc = "epoch") =>
          LET done == {feature_indices[q] : q \in 1 .. (pos - 1)}
          IN /\ recomputes = (IF 0 \in done THEN 1 ELSE 0)
             /\ 0 \in done => feature_indices[recomputeAt] = 0
    /\ (engine = "BCD" /\ pc = "loop" /\ epochs >= 1) =>
          /\ recomputes = 1
          /\ feature_indices[recomputeAt] = 0

C9_Witness ==
    /\ engine = "BCD" /\ pc = "loop" /\ epochs >= 1
    /\ recomputes = 1
    /\ recomputeAt > 1

\* C10: with trace = TRUE, trace_x[k] is x as it stood at the end of executed
\* epoch k, trace_func[k] is the objective at that x, and trace_func and
\* trace_time are as long as the number of executed epochs.
C10_TraceHoldsEpochSnapshots ==
    (engine = "BCD" /\ pc = "done" /\ arg.trace) =>
        /\ Len(Val(result).trace_func) = epochs
        /\ Len(Val(result).trace_time) = epochs
        /\ \A k \in 1 .. epochs :
              /\ trace_x[k] = xEnd[k]
              /\ Val(result).trace_func[k] = Objective(arg.f, arg.g, xEnd[k])

\* C5: for beta > 0 the prox of the SAGA engine returns the soft-threshold value
\* max(v - beta*gamma, 0) - max(-v - beta*gamma, 0), so that every v within
\* [-beta*gamma, beta*gamma] is mapped to 0; for beta = 0 it is the identity.
C5_ProxIsSoftThreshold ==
    (engine = "prox" /\ pc = "done") =>
        /\ result # None
        /\ Val(result) =
              (IF arg.beta > 0 THEN SoftThreshold(arg.beta, arg.v, arg.gamma) ELSE arg.v)
        /\ (arg.beta > 0 /\ Abs(arg.v) <= arg.beta * arg.gamma) => Val(result) = 0

=============================================================================
